---- MODULE Spec2Model ----
(***************************************************************************)
(* TaxClarity: the deterministic tax engine (src/taxCalc.js) and the       *)
(* POST /api/explain request handler (src/routes/explain.js).              *)
(*                                                                         *)
(* Numbers.  A JavaScript number n is represented by the integer n*Scale,  *)
(* so that the model also covers salaries and deductions that are not      *)
(* whole rupees (z.number() accepts them).  Rates are kept in percent.     *)
(* Math.round is round-half-up on the exact quotient.                      *)
(***************************************************************************)
EXTENDS Integers, Sequences, FiniteSets, TLC

\* -------------------------------------------------------------------- state

VARIABLES
    env,            \* process.env: GEMINI_API_KEY, GEMINI_MODEL, N8N_WEBHOOK_URL
    body,           \* req.body
    pc,             \* where the handler is suspended: start, retrieving,
                    \* generating, sleeping, done (idle: no request)
    data,           \* parsed.data
    taxNumbers,     \* the result of compareTaxRegimes
    taxCalls,       \* calls of compareTaxRegimes
    retrievalCalls, \* calls of queryTopK
    retrievalFailed,\* queryTopK threw
    chunks,         \* the retrieved chunks
    modelIdx,       \* callGemini: position in GEMINI_MODELS (from 1)
    attempt,        \* callGemini: the inner loop's counter
    lastErr,        \* callGemini: lastErr, << >> while undefined
    attemptLog,     \* every finished generateContent call, in order
    sleepLog,       \* every sleep(delay), in order, in milliseconds
    response,       \* what res.json sent, NoResponse before
    responses,      \* how many responses were sent
    webhook,        \* the notification call
    webhookSends,   \* calls of axios.post
    assemblyThrew,  \* an exception was raised while building the response
    taxIn,          \* tax engine called directly: the arguments
    taxOut,         \* tax engine called directly: the function and its result
    health,         \* what GET /api/health answered, NoResponse before
    _client,        \* vectorStore.js: the module-level _client
    _collection,    \* vectorStore.js: the module-level _collection
    calls           \* vectorStore.js: the getCollection calls, by caller

vars ==
    << env, body, pc, data, taxNumbers, taxCalls, retrievalCalls, retrievalFailed,
       chunks, modelIdx, attempt, lastErr, attemptLog, sleepLog, response,
       responses, webhook, webhookSends, assemblyThrew, taxIn, taxOut,
       health, _client, _collection, calls >>

taxVars == << taxIn, taxOut >>
storeVars == << _client, _collection, calls >>
genVars == << modelIdx, attempt, lastErr, attemptLog, sleepLog >>
outVars == << response, responses, webhook, webhookSends, assemblyThrew >>

\* ------------------------------------------------------------------ bounds

\* Units per rupee: the resolution at which inputs are enumerated.
Scale == 2
\* The gross incomes enumerated are 0, SalaryStep, ..., MaxSalarySteps*SalaryStep
\* rupees, each with its neighbours one unit and one rupee below and above.
SalaryStep == 25000
MaxSalarySteps == 80

Rupees(n) == n * Scale

Min(a, b) == IF a <= b THEN a ELSE b
Max(a, b) == IF a >= b THEN a ELSE b
Abs(a) == IF a < 0 THEN -a ELSE a

\* Math.round(num/den) for num >= 0, den > 0: the nearest integer, half up.
MathRound(num, den) == (2 * num + den) \div (2 * den)

\* --------------------------------------------------------------- taxCalc.js

CESS_RATE == 4
OLD_REGIME_STANDARD_DEDUCTION == 50000
OLD_REGIME_MAX_80C == 150000
OLD_REGIME_MAX_80D == 25000
NEW_REGIME_STANDARD_DEDUCTION == 75000
OLD_REBATE_LIMIT == 500000
NEW_REBATE_LIMIT == 700000

\* Stands for the JavaScript Infinity: above every amount the model reaches.
Infinity == 2000000000

OLD_SLABS ==
    << [up_to |-> 250000, rate |-> 0],
       [up_to |-> 500000, rate |-> 5],
       [up_to |-> 1000000, rate |-> 20],
       [up_to |-> Infinity, rate |-> 30] >>

NEW_SLABS ==
    << [up_to |-> 300000, rate |-> 0],
       [up_to |-> 700000, rate |-> 5],
       [up_to |-> 1000000, rate |-> 10],
       [up_to |-> 1200000, rate |-> 15],
       [up_to |-> 1500000, rate |-> 20],
       [up_to |-> Infinity, rate |-> 30] >>

\* slab.up_to in units.
UpTo(slab) == IF slab.up_to = Infinity THEN Infinity ELSE Rupees(slab.up_to)

\* Faulty variant of SlabLoop: prev is never advanced, so every slab is charged
\* on the income from zero.
RECURSIVE SlabLoopNoPrev(_, _, _, _, _)
SlabLoopNoPrev(taxableIncome, slabs, i, prev, tax) ==
    IF i > Len(slabs) THEN tax
    ELSE LET slab == slabs[i]
             slice == Min(taxableIncome, UpTo(slab)) - prev
         IN  IF slice <= 0 THEN tax
             ELSE IF taxableIncome <= UpTo(slab) THEN tax + slice * slab.rate
             ELSE SlabLoopNoPrev(taxableIncome, slabs, i + 1, prev,
                                 tax + slice * slab.rate)

\* The for loop of applySlabs from slab i on: tax is the running sum, in
\* units of 1/(100*Scale) rupee (slice in units times rate in percent).
RECURSIVE SlabLoop(_, _, _, _, _)
SlabLoop(taxableIncome, slabs, i, prev, tax) ==
    IF i > Len(slabs) THEN tax
    ELSE LET slab == slabs[i]
             slice == Min(taxableIncome, UpTo(slab)) - prev
         IN  IF slice <= 0 THEN tax
             ELSE IF taxableIncome <= UpTo(slab) THEN tax + slice * slab.rate
             ELSE SlabLoop(taxableIncome, slabs, i + 1, UpTo(slab),
                           tax + slice * slab.rate)

applySlabs(taxableIncome, slabs) ==
    IF taxableIncome <= 0 THEN 0
    ELSE Rupees(MathRound(SlabLoop(taxableIncome, slabs, 1, 0, 0), 100 * Scale))

\* The object {}.
EmptyObject == [x \in {} |-> 0]

\* const { section80C = 0, ... } = deductions: an absent field counts as 0.
Field(obj, name) == IF name \in DOMAIN obj THEN obj[name] ELSE 0

\* Faulty variant of EffectiveRate: the second decimal is cut, not rounded.
EffectiveRateTruncated(totalTax, grossSalary) ==
    IF grossSalary > 0
    THEN LET q0 == totalTax \div grossSalary
             r0 == totalTax % grossSalary
             q1 == (r0 * 100) \div grossSalary
             r1 == (r0 * 100) % grossSalary
             q2 == (r1 * 100) \div grossSalary
         IN  q0 * 10000 + q1 * 100 + q2
    ELSE 0

\* +((totalTax / grossSalary) * 100).toFixed(2), in hundredths of a percent;
\* long division keeps every intermediate value below 100 * grossSalary.
EffectiveRate(totalTax, grossSalary) ==
    IF grossSalary > 0
    THEN LET q0 == totalTax \div grossSalary
             r0 == totalTax % grossSalary
             q1 == (r0 * 100) \div grossSalary
             r1 == (r0 * 100) % grossSalary
             q2 == (r1 * 100) \div grossSalary
             r2 == (r1 * 100) % grossSalary
         IN  q0 * 10000 + q1 * 100 + q2 + (IF 2 * r2 >= grossSalary THEN 1 ELSE 0)
    ELSE 0

\* const cess = taxAfterRebate > 0 ? Math.round(taxAfterRebate * CESS_RATE) : 0
Cess(taxAfterRebate) ==
    IF taxAfterRebate > 0
    THEN Rupees(MathRound(taxAfterRebate * CESS_RATE, 100 * Scale))
    ELSE 0

\* Faulty variant of Rebate87A: the threshold itself is taxed (< for <=).
Rebate87AStrict(taxableIncome, limit, baseTax) ==
    IF taxableIncome < Rupees(limit) THEN 0 ELSE baseTax

\* Faulty variant of Rebate87A: marginal relief, the tax above the threshold
\* is limited to the income in excess of it.
Rebate87ASmooth(taxableIncome, limit, baseTax) ==
    IF taxableIncome <= Rupees(limit) THEN 0
    ELSE Min(baseTax, taxableIncome - Rupees(limit))

\* Faulty variant of Rebate87A: the test is inverted, the rebate is given
\* above the threshold.
Rebate87AInverted(taxableIncome, limit, baseTax) ==
    IF taxableIncome > Rupees(limit) THEN 0 ELSE baseTax

\* const taxAfterRebate = taxableIncome <= 500_000 ? 0 : baseTax
Rebate87A(taxableIncome, limit, baseTax) ==
    IF taxableIncome <= Rupees(limit) THEN 0 ELSE baseTax

\* Faulty variant of computeOldRegime: section80C and section80D are not capped.
computeOldRegimeUncapped(grossSalary, deductions) ==
    LET section80C == Field(deductions, "section80C")
        section80D == Field(deductions, "section80D")
        hra == Field(deductions, "hra")
        other == Field(deductions, "other")
        totalDeductions ==
            Rupees(OLD_REGIME_STANDARD_DEDUCTION) + section80C + section80D + hra + other
        taxableIncome == Max(0, grossSalary - totalDeductions)
        baseTax == applySlabs(taxableIncome, OLD_SLABS)
        taxAfterRebate == Rebate87A(taxableIncome, OLD_REBATE_LIMIT, baseTax)
        cess == Cess(taxAfterRebate)
        totalTax == taxAfterRebate + cess
    IN  [regime |-> "old",
         grossSalary |-> grossSalary,
         totalDeductions |-> totalDeductions,
         taxableIncome |-> taxableIncome,
         baseTax |-> taxAfterRebate,
         cess |-> cess,
         totalTax |-> totalTax,
         effectiveRate |-> EffectiveRate(totalTax, grossSalary)]

computeOldRegime(grossSalary, deductions) ==
    LET section80C == Field(deductions, "section80C")
        section80D == Field(deductions, "section80D")
        hra == Field(deductions, "hra")
        other == Field(deductions, "other")
        capped80C == Min(section80C, Rupees(OLD_REGIME_MAX_80C))
        capped80D == Min(section80D, Rupees(OLD_REGIME_MAX_80D))
        totalDeductions ==
            Rupees(OLD_REGIME_STANDARD_DEDUCTION) + capped80C + capped80D + hra + other
        taxableIncome == Max(0, grossSalary - totalDeductions)
        baseTax == applySlabs(taxableIncome, OLD_SLABS)
        taxAfterRebate == Rebate87A(taxableIncome, OLD_REBATE_LIMIT, baseTax)
        cess == Cess(taxAfterRebate)
        totalTax == taxAfterRebate + cess
    IN  [regime |-> "old",
         grossSalary |-> grossSalary,
         totalDeductions |-> totalDeductions,
         taxableIncome |-> taxableIncome,
         baseTax |-> taxAfterRebate,
         cess |-> cess,
         totalTax |-> totalTax,
         effectiveRate |-> EffectiveRate(totalTax, grossSalary)]

\* Faulty variant of computeNewRegime: no rebate is given.
computeNewRegimeNoRebate(grossSalary) ==
    LET totalDeductions == Rupees(NEW_REGIME_STANDARD_DEDUCTION)
        taxableIncome == Max(0, grossSalary - totalDeductions)
        baseTax == applySlabs(taxableIncome, NEW_SLABS)
        cess == Cess(baseTax)
        totalTax == baseTax + cess
    IN  [regime |-> "new",
         grossSalary |-> grossSalary,
         totalDeductions |-> totalDeductions,
         taxableIncome |-> taxableIncome,
         baseTax |-> baseTax,
         cess |-> cess,
         totalTax |-> totalTax,
         effectiveRate |-> EffectiveRate(totalTax, grossSalary)]

computeNewRegime(grossSalary) ==
    LET totalDeductions == Rupees(NEW_REGIME_STANDARD_DEDUCTION)
        taxableIncome == Max(0, grossSalary - totalDeductions)
        baseTax == applySlabs(taxableIncome, NEW_SLABS)
        taxAfterRebate == Rebate87A(taxableIncome, NEW_REBATE_LIMIT, baseTax)
        cess == Cess(taxAfterRebate)
        totalTax == taxAfterRebate + cess
    IN  [regime |-> "new",
         grossSalary |-> grossSalary,
         totalDeductions |-> totalDeductions,
         taxableIncome |-> taxableIncome,
         baseTax |-> taxAfterRebate,
         cess |-> cess,
         totalTax |-> totalTax,
         effectiveRate |-> EffectiveRate(totalTax, grossSalary)]

\* Faulty variant of compareTaxRegimes: a tie is reported in favour of the new
\* regime (>= for >).
compareTaxRegimesTieNew(grossSalary, deductions) ==
    LET oldResult == computeOldRegime(grossSalary, deductions)
        newResult == computeNewRegime(grossSalary)
        savings == oldResult.totalTax - newResult.totalTax
        recommendation ==
            IF savings >= 0 THEN [text |-> "New Regime saves", amount |-> savings]
            ELSE [text |-> "Old Regime saves", amount |-> Abs(savings)]
    IN  [old |-> oldResult,
         new |-> newResult,
         recommendation |-> recommendation,
         savings |-> savings,
         betterRegime |-> IF savings >= 0 THEN "new" ELSE "old"]

\* The recommendation string is kept as its template and the amount in it.
compareTaxRegimes(grossSalary, deductions) ==
    LET oldResult == computeOldRegime(grossSalary, deductions)
        newResult == computeNewRegime(grossSalary)
        savings == oldResult.totalTax - newResult.totalTax
        recommendation ==
            IF savings > 0 THEN [text |-> "New Regime saves", amount |-> savings]
            ELSE IF savings < 0 THEN [text |-> "Old Regime saves", amount |-> Abs(savings)]
            ELSE [text |-> "Both regimes result in the same tax liability.", amount |-> 0]
    IN  [old |-> oldResult,
         new |-> newResult,
         recommendation |-> recommendation,
         savings |-> savings,
         betterRegime |-> IF savings > 0 THEN "new"
                          ELSE IF savings < 0 THEN "old" ELSE "equal"]

\* ------------------------------------------------- routes/explain.js: input

\* A JSON value of the request body, with its type.
Undefined == [t |-> "undefined"]
Num(v) == [t |-> "number", v |-> v]
Str(len) == [t |-> "string", len |-> len]
Obj(fields) == [t |-> "object", fields |-> fields]

MAX_80C == 150000
MAX_80D == 25000
MAX_QUERY_LEN == 500

\* Faulty variant of ZNumberMin0: negative numbers pass.
ZNumberAny(val) == val.t = "number"

\* z.number().min(0)
ZNumberMin0(val) == val.t = "number" /\ val.v >= 0

\* z.number().min(0).max(limit).default(0) and z.number().min(0).default(0) on
\* one field of the deductions object; limit = Infinity when there is no max.
DeductionFieldOk(obj, name, limit) ==
    \/ name \notin DOMAIN obj
    \/ obj[name] = Undefined
    \/ /\ ZNumberMin0(obj[name])
       /\ (limit # Infinity => obj[name].v <= Rupees(limit))

DeductionFieldValue(obj, name) ==
    IF name \in DOMAIN obj /\ obj[name] # Undefined THEN obj[name].v ELSE 0

DeductionNames == {"section80C", "section80D", "hra", "other"}

\* DeductionsSchema: an object of four optional bounded numbers, default {}.
DeductionsOk(val) ==
    \/ val = Undefined
    \/ /\ val.t = "object"
       /\ DeductionFieldOk(val.fields, "section80C", MAX_80C)
       /\ DeductionFieldOk(val.fields, "section80D", MAX_80D)
       /\ DeductionFieldOk(val.fields, "hra", Infinity)
       /\ DeductionFieldOk(val.fields, "other", Infinity)

DeductionsData(val) ==
    LET fields == IF val = Undefined THEN EmptyObject ELSE val.fields
    IN  [n \in DeductionNames |-> DeductionFieldValue(fields, n)]

\* z.number().positive()
SalaryOk(val) == val.t = "number" /\ val.v > 0

\* z.string().max(500).optional()
QueryOk(val) == val = Undefined \/ (val.t = "string" /\ val.len <= MAX_QUERY_LEN)

\* ExplainSchema.safeParse(req.body): success, the parsed data, and the keys
\* of error.flatten().fieldErrors.
ExplainSchema(reqBody) ==
    LET bad == {f \in {"salary"} : ~SalaryOk(reqBody.salary)}
               \cup {f \in {"deductions"} : ~DeductionsOk(reqBody.deductions)}
               \cup {f \in {"query"} : ~QueryOk(reqBody.query)}
    IN  IF bad = {}
        THEN [success |-> TRUE,
              data |-> [salary |-> reqBody.salary.v,
                        deductions |-> DeductionsData(reqBody.deductions),
                        query |-> reqBody.query],
              fieldErrors |-> {}]
        ELSE [success |-> FALSE, data |-> Undefined, fieldErrors |-> bad]

\* ------------------------------------------- routes/explain.js: environment

\* A process.env entry is a string, or Unset when the variable is not defined.
Unset == "<unset>"
KEY_PLACEHOLDER == "your_gemini_api_key_here"
WEBHOOK_PLACEHOLDER == "http://localhost:5678/webhook/tax-report"

\* JavaScript truthiness of a process.env entry.
Truthy(s) == s # Unset /\ s # ""

\* const GEMINI_MODELS = process.env.GEMINI_MODEL ? [...] : [...]
GEMINI_MODELS(processEnv) ==
    IF Truthy(processEnv.GEMINI_MODEL)
    THEN << processEnv.GEMINI_MODEL, "gemini-1.5-flash", "gemini-1.5-pro" >>
    ELSE << "gemini-1.5-flash", "gemini-1.5-pro", "gemini-2.0-flash" >>

\* Faulty variant of KeyConfigured: the template value counts as a key.
KeyConfiguredAnyValue(processEnv) == Truthy(processEnv.GEMINI_API_KEY)

\* process.env.GEMINI_API_KEY && process.env.GEMINI_API_KEY !== 'your_gemini_api_key_here'
KeyConfigured(processEnv) ==
    Truthy(processEnv.GEMINI_API_KEY) /\ processEnv.GEMINI_API_KEY # KEY_PLACEHOLDER

\* Faulty variant of WebhookConfigured: the default URL counts as configured.
WebhookConfiguredAnyUrl(processEnv) == Truthy(processEnv.N8N_WEBHOOK_URL)

\* fireWebhook's guard: if (!url || url === '<placeholder>') return
WebhookConfigured(processEnv) ==
    Truthy(processEnv.N8N_WEBHOOK_URL) /\ processEnv.N8N_WEBHOOK_URL # WEBHOOK_PLACEHOLDER

\* ---------------------------------------------- routes/explain.js: callGemini

DEFAULT_RETRY_SEC == 10
ERR_SLICE == 80

\* A retry hint in an error message, "retry in <number><unit>": the number in
\* tenths of a second and the characters that follow it.
Hint(tenths, unit) == [tenths |-> tenths, unit |-> unit]
UnitS == << "s" >>
UnitSeconds == << " ", "s", "e", "c", "o", "n", "d", "s" >>

\* An error thrown by generateContent: its status (0 when it has none), whether
\* its message contains '429', the retry hint in its message (<< >> when there
\* is none, else << hint >>), and the message's length.
Err(status, has429, retry, len) ==
    [status |-> status, has429 |-> has429, retry |-> retry, len |-> len]

\* const is429 = err.message?.includes('429') || err.status === 429
Is429(err) == err.has429 \/ err.status = 429

\* errMsg?.match(/retry in ([\d.]+)s/i): the number must be followed at once
\* by an s.
HintMatches(err) ==
    /\ err.retry # << >>
    /\ err.retry[1].unit # << >>
    /\ Head(err.retry[1].unit) \in {"s", "S"}

\* Faulty variant of parseRetryDelay: the seconds are rounded down.
parseRetryDelayFloor(err) ==
    IF HintMatches(err)
    THEN (err.retry[1].tenths \div 10) * 1000
    ELSE DEFAULT_RETRY_SEC * 1000

\* parseRetryDelay(errMsg, defaultSec = 10), in milliseconds:
\* Math.ceil(parseFloat(match[1])) * 1000 on a match.
parseRetryDelay(err) ==
    IF HintMatches(err)
    THEN ((err.retry[1].tenths + 9) \div 10) * 1000
    ELSE DEFAULT_RETRY_SEC * 1000

\* Faulty variant of SliceMessage: the whole message is embedded.
WholeMessage(err) == [of |-> err, len |-> err.len]

\* aiErr.message?.slice(0, 80): the message is kept as its origin and length.
SliceMessage(err) == [of |-> err, len |-> Min(err.len, ERR_SLICE)]

\* ------------------------------------------ routes/explain.js: bullet points

Whitespace == {" ", "\t"}
Digits == {"0", "1", "2", "3", "4", "5", "6", "7", "8", "9"}
\* [-*\d] with the bullet glyph written "o".
BulletMarkers == {"-", "o", "*"} \cup Digits

RECURSIVE DropWhile(_, _)
DropWhile(line, chars) ==
    IF line # << >> /\ Head(line) \in chars THEN DropWhile(Tail(line), chars) ELSE line

RECURSIVE DropEndWhile(_, _)
DropEndWhile(line, chars) ==
    IF line # << >> /\ line[Len(line)] \in chars
    THEN DropEndWhile(SubSeq(line, 1, Len(line) - 1), chars)
    ELSE line

\* String.prototype.trim
Trim(line) == DropEndWhile(DropWhile(line, Whitespace), Whitespace)

\* line.trim().match(/^[-*\d]/)
IsBulletLine(line) == Trim(line) # << >> /\ Head(Trim(line)) \in BulletMarkers

\* line.replace(/^[-*\d.]+\s*/, ''): anchored at the start of the line as given.
StripMarker(line) ==
    IF line # << >> /\ Head(line) \in BulletMarkers \cup {"."}
    THEN DropWhile(DropWhile(line, BulletMarkers \cup {"."}), Whitespace)
    ELSE line

RECURSIVE ExtractBullets(_)
ExtractBullets(lines) ==
    IF lines = << >> THEN << >>
    ELSE LET line == Head(lines)
             rest == ExtractBullets(Tail(lines))
             bullet == Trim(StripMarker(line))
         IN  IF IsBulletLine(line) /\ bullet # << >> THEN << bullet >> \o rest ELSE rest

\* ------------------------------------------ routes/explain.js: the response

EXCERPT_LEN == 150
TOP_K == 5
\* The most chunks a retrieval returns in the model (at most TOP_K).
MaxChunks == 3

JNull == [t |-> "null"]

\* Faulty variant of Source: a text of exactly 150 characters gets the marker.
SourceEllipsisAt150(c) ==
    [file |-> IF "file" \in DOMAIN c.metadata THEN c.metadata.file ELSE "unknown",
     page |-> IF "page" \in DOMAIN c.metadata /\ c.metadata.page # 0
              THEN Num(c.metadata.page) ELSE JNull,
     chunk_id |-> IF "chunk_id" \in DOMAIN c.metadata
                  THEN Num(c.metadata.chunk_id) ELSE JNull,
     excerpt |-> [of |-> c.text.id,
                  len |-> Min(c.text.len, EXCERPT_LEN),
                  ellipsis |-> c.text.len >= EXCERPT_LEN]]

\* c.metadata?.file || 'unknown', c.metadata?.page || null,
\* c.metadata?.chunk_id ?? null, and the 150-character preview of c.text.
Source(c) ==
    [file |-> IF "file" \in DOMAIN c.metadata THEN c.metadata.file ELSE "unknown",
     page |-> IF "page" \in DOMAIN c.metadata /\ c.metadata.page # 0
              THEN Num(c.metadata.page) ELSE JNull,
     chunk_id |-> IF "chunk_id" \in DOMAIN c.metadata
                  THEN Num(c.metadata.chunk_id) ELSE JNull,
     excerpt |-> [of |-> c.text.id,
                  len |-> Min(c.text.len, EXCERPT_LEN),
                  ellipsis |-> c.text.len > EXCERPT_LEN]]

Sources(chunkList) == [i \in 1..Len(chunkList) |-> Source(chunkList[i])]

\* The trimmed view of one regime's result in response.taxNumbers.
RegimeView(r) ==
    [taxableIncome |-> r.taxableIncome,
     totalTax |-> r.totalTax,
     effectiveRate |-> r.effectiveRate,
     totalDeductions |-> r.totalDeductions]

NoResponse == [status |-> 0]

\* Faulty variant of BuildResponse: savings keeps its sign.
BuildResponseSignedSavings(tax, summary, bulletList, chunkList) ==
    [status |-> 200,
     verdict |-> tax.betterRegime,
     recommendation |-> tax.recommendation,
     taxNumbers |-> [old |-> RegimeView(tax.old), new |-> RegimeView(tax.new)],
     savings |-> tax.savings,
     aiSummary |-> summary,
     bullets |-> bulletList,
     sources |-> Sources(chunkList)]

\* Faulty variant of BuildResponse: the verdict is derived from the summary.
BuildResponseVerdictFromSummary(tax, summary, bulletList, chunkList) ==
    [status |-> 200,
     verdict |-> IF summary.kind = "generated" THEN tax.betterRegime ELSE "equal",
     recommendation |-> tax.recommendation,
     taxNumbers |-> [old |-> RegimeView(tax.old), new |-> RegimeView(tax.new)],
     savings |-> Abs(tax.savings),
     aiSummary |-> summary,
     bullets |-> bulletList,
     sources |-> Sources(chunkList)]

\* const response = {...}; the timestamp (the clock) is left out.
BuildResponse(tax, summary, bulletList, chunkList) ==
    [status |-> 200,
     verdict |-> tax.betterRegime,
     recommendation |-> tax.recommendation,
     taxNumbers |-> [old |-> RegimeView(tax.old), new |-> RegimeView(tax.new)],
     savings |-> Abs(tax.savings),
     aiSummary |-> summary,
     bullets |-> bulletList,
     sources |-> Sources(chunkList)]

\* res.status(400).json({ error: 'Invalid input', details: fieldErrors })
ValidationError(fieldErrors) ==
    [status |-> 400, error |-> "Invalid input", details |-> fieldErrors]

\* Faulty variant of InternalError: the numbers computed so far are sent along.
InternalErrorWithNumbers ==
    [status |-> 500, error |-> "Internal server error", message |-> "err.message",
     taxNumbers |-> taxNumbers]

\* res.status(500).json({ error: 'Internal server error', message: err.message })
InternalError ==
    [status |-> 500, error |-> "Internal server error", message |-> "err.message"]

\* The notification: not sent, or the payload posted and the call's state.
NotSent == [state |-> "not sent"]

WebhookPayload(parsed, resp) ==
    [salary |-> parsed.salary,
     deductions |-> parsed.deductions,
     verdict |-> resp.verdict,
     recommendation |-> resp.recommendation,
     taxNumbers |-> resp.taxNumbers,
     savings |-> resp.savings]

\* fireWebhook(payload): returns at once; axios.post is left pending.
fireWebhook(processEnv, payload) ==
    IF ~WebhookConfigured(processEnv) THEN NotSent
    ELSE [state |-> "pending", payload |-> payload]

\* The three shapes of aiSummary.
Generated(text) == [kind |-> "generated", text |-> text]
\* Faulty variant of Unavailable: the catch leaves aiSummary as it was, null.
UnavailableLeftNull(err) == [kind |-> "null"]

Unavailable(err) == [kind |-> "AI summary unavailable", reason |-> SliceMessage(err)]
SetKeyMessage == [kind |-> "Set GEMINI_API_KEY in .env to enable AI-powered explanations."]
NullSummary == [kind |-> "null"]

\* ------------------------------------------------------------ vectorStore.js

\* The callers of getCollection that may be in progress at once.
MaxCalls == 4
Callers == 1..MaxCalls

\* The collection handle the index returned to the lookup of caller c.
Handle(c) == [collection |-> "tax_docs", lookup |-> c]

\* One getCollection call: not started, awaiting getOrCreateCollection,
\* returned (with its result) or threw; contacted tells whether it called the
\* index.
CallIdle == [pc |-> "idle", contacted |-> FALSE, result |-> JNull]

\* No call was made yet: let _client = null; let _collection = null.
StoreIdle ==
    /\ _client = JNull
    /\ _collection = JNull
    /\ calls = [c \in Callers |-> CallIdle]

\* ------------------------------------------------------------------- inputs

ApiKeys == {Unset, "", KEY_PLACEHOLDER, "test-key-12345"}
ModelSettings == {Unset, "gemini-2.5-flash", "gemini-1.5-flash"}
WebhookUrls == {Unset, WEBHOOK_PLACEHOLDER, "http://localhost:5678/webhook/test"}

Envs ==
    [GEMINI_API_KEY : ApiKeys, GEMINI_MODEL : ModelSettings, N8N_WEBHOOK_URL : WebhookUrls]

SalaryValues ==
    {Undefined, Str(7), Num(-1), Num(0), Num(1), Num(Rupees(1200000))}

DeductionValues ==
    {Undefined,
     Str(2),
     Obj([section80C |-> Num(Rupees(150000)), section80D |-> Num(Rupees(25000)),
          hra |-> Num(Rupees(400000)), other |-> Num(1)]),
     Obj([section80C |-> Num(Rupees(150000) + 1)]),
     Obj([section80D |-> Num(Rupees(25000) + 1)]),
     Obj([hra |-> Num(-1)]),
     Obj([other |-> Str(3)])}

QueryValues == {Undefined, Str(0), Str(MAX_QUERY_LEN), Str(MAX_QUERY_LEN + 1), Num(1)}

Bodies == [salary : SalaryValues, deductions : DeductionValues, query : QueryValues]

\* What generateContent can throw, and the texts it can return: a 429 with
\* "retry in 2.5s", a message naming 429 with "retry in 30 seconds", a 429
\* status with no hint, and a 503.
GenErrors ==
    {Err(429, TRUE, << Hint(25, UnitS) >>, 120),
     Err(0, TRUE, << Hint(300, UnitSeconds) >>, 40),
     Err(429, FALSE, << >>, 40),
     Err(503, FALSE, << >>, 81)}

TextPlain == << << "N", "e", "w" >> >>
TextBullets ==
    << << "S", "u", "m" >>,
       << "-", " ", "a" >>,
       << " ", "*", " ", "b" >>,
       << "1", ".", " ", "c", " " >>,
       << "-", " " >> >>
GenTexts == {TextPlain, TextBullets}

\* The i-th nearest stored chunk; their texts straddle the preview length.
Chunk(i) ==
    [text |-> [id |-> i, len |-> EXCERPT_LEN - 2 + i],
     metadata |-> IF i = 2 THEN EmptyObject ELSE [file |-> "guide.pdf", page |-> i - 1, chunk_id |-> i],
     distance |-> i]

TopChunks(n) == [i \in 1..n |-> Chunk(i)]

\* ------------------------------------------------- POST /api/explain: steps

Init ==
    /\ env \in Envs
    /\ body \in Bodies
    /\ pc = "start"
    /\ data = Undefined
    /\ taxNumbers = Undefined
    /\ taxCalls = 0
    /\ retrievalCalls = 0
    /\ retrievalFailed = FALSE
    /\ chunks = << >>
    /\ modelIdx = 0
    /\ attempt = 0
    /\ lastErr = << >>
    /\ attemptLog = << >>
    /\ sleepLog = << >>
    /\ response = NoResponse
    /\ responses = 0
    /\ webhook = NotSent
    /\ webhookSends = 0
    /\ assemblyThrew = FALSE
    /\ taxIn = Undefined
    /\ taxOut = Undefined
    /\ health = NoResponse
    /\ StoreIdle

\* Lines 178-225: build the response, fire the webhook, send the response; an
\* exception on the way is caught by the outer catch, which answers 500.
Finish(summary, bulletList, chunkList, throws) ==
    /\ pc' = "done"
    /\ responses' = responses + 1
    /\ assemblyThrew' = throws
    /\ IF throws
       THEN /\ response' = InternalError
            /\ UNCHANGED << webhook, webhookSends >>
       ELSE LET r == BuildResponse(taxNumbers, summary, bulletList, chunkList)
                w == fireWebhook(env, WebhookPayload(data, r))
            IN  /\ response' = r
                /\ webhook' = w
                /\ webhookSends' = webhookSends + (IF w = NotSent THEN 0 ELSE 1)

\* Lines 134-140: the body fails the schema.
ValidationFails ==
    /\ pc = "start"
    /\ ~ExplainSchema(body).success
    /\ response' = ValidationError(ExplainSchema(body).fieldErrors)
    /\ responses' = responses + 1
    /\ pc' = "done"
    /\ UNCHANGED << env, body, data, taxNumbers, taxCalls, retrievalCalls,
                    retrievalFailed, chunks, genVars, webhook, webhookSends,
                    assemblyThrew, taxVars, health, storeVars >>

\* Lines 134-152: the body passes; tax numbers are computed and queryTopK is
\* called, which suspends the handler.
ValidationPasses ==
    /\ pc = "start"
    /\ ExplainSchema(body).success
    /\ data' = ExplainSchema(body).data
    /\ taxNumbers' = compareTaxRegimes(data'.salary, data'.deductions)
    /\ taxCalls' = taxCalls + 1
    /\ retrievalCalls' = retrievalCalls + 1
    /\ pc' = "retrieving"
    /\ UNCHANGED << env, body, retrievalFailed, chunks, genVars, outVars, taxVars, health, storeVars >>

\* Faulty variant of AfterRetrieval: the notification is fired before
\* generation starts.
AfterRetrievalNotifiesFirst(chunkList) ==
    IF KeyConfigured(env)
    THEN LET r == BuildResponse(taxNumbers, NullSummary, << >>, chunkList)
             w == fireWebhook(env, WebhookPayload(data, r))
         IN  /\ modelIdx' = 1
             /\ attempt' = 0
             /\ pc' = "generating"
             /\ webhook' = w
             /\ webhookSends' = webhookSends + (IF w = NotSent THEN 0 ELSE 1)
             /\ UNCHANGED << lastErr, attemptLog, sleepLog, response, responses,
                             assemblyThrew >>
    ELSE /\ \E throws \in BOOLEAN : Finish(SetKeyMessage, << >>, chunkList, throws)
         /\ UNCHANGED genVars

\* Lines 158-176 once the chunks are settled: callGemini starts its first
\* attempt, or, without a key, the fixed message is the summary.
AfterRetrieval(chunkList) ==
    IF KeyConfigured(env)
    THEN /\ modelIdx' = 1
         /\ attempt' = 0
         /\ pc' = "generating"
         /\ UNCHANGED << lastErr, attemptLog, sleepLog, outVars >>
    ELSE /\ \E throws \in BOOLEAN : Finish(SetKeyMessage, << >>, chunkList, throws)
         /\ UNCHANGED genVars

\* Line 152: queryTopK(userQuery, 5) resolves with the nearest chunks.
RetrievalReturns ==
    /\ pc = "retrieving"
    /\ \E n \in 0..Min(MaxChunks, TOP_K) :
        /\ chunks' = TopChunks(n)
        /\ AfterRetrieval(TopChunks(n))
    /\ UNCHANGED << env, body, data, taxNumbers, taxCalls, retrievalCalls,
                    retrievalFailed, taxVars, health, storeVars >>

\* Faulty variant of RetrievalThrows: the rejection is not caught around
\* queryTopK and reaches the outer catch.
RetrievalThrowsUncaught ==
    /\ pc = "retrieving"
    /\ retrievalFailed' = TRUE
    /\ response' = InternalError
    /\ responses' = responses + 1
    /\ pc' = "done"
    /\ UNCHANGED << env, body, data, taxNumbers, taxCalls, retrievalCalls, chunks,
                    genVars, webhook, webhookSends, assemblyThrew, taxVars, health, storeVars >>

\* Lines 153-156: queryTopK rejects; the catch keeps chunks = [].
RetrievalThrows ==
    /\ pc = "retrieving"
    /\ retrievalFailed' = TRUE
    /\ chunks' = << >>
    /\ AfterRetrieval(<< >>)
    /\ UNCHANGED << env, body, data, taxNumbers, taxCalls, retrievalCalls, taxVars, health, storeVars >>

\* One finished generateContent call: the model, its position in the list, the
\* loop counter, the outcome (ok, 429, error) and the text returned, if any.
Attempted(outcome, text) ==
    [model |-> GEMINI_MODELS(env)[modelIdx], idx |-> modelIdx,
     attempt |-> attempt, outcome |-> outcome, text |-> text]

Outcome(err) == IF Is429(err) THEN "429" ELSE "error"

\* Faulty variant of RetrySameModel: any failure of a first attempt is retried.
RetryAnyFailure(err, att) == att = 0

\* Faulty variant of RetrySameModel: a rate-limited model is given up at once.
RetryNever(err, att) == FALSE

\* if (is429 && attempt === 0) { ...; continue; }
RetrySameModel(err, att) == Is429(err) /\ att = 0

\* Faulty variant of GenerationSucceeds: the text is kept but the loop goes on
\* to the next model; the last text obtained is the summary.
GenerationSucceedsContinues ==
    /\ pc = "generating"
    /\ \E text \in GenTexts, throws \in BOOLEAN :
        /\ attemptLog' = Append(attemptLog, Attempted("ok", text))
        /\ IF modelIdx < Len(GEMINI_MODELS(env))
           THEN /\ modelIdx' = modelIdx + 1
                /\ attempt' = 0
                /\ UNCHANGED << pc, outVars >>
           ELSE /\ Finish(Generated(text), ExtractBullets(text), chunks, throws)
                /\ UNCHANGED << modelIdx, attempt >>
    /\ UNCHANGED << env, body, data, taxNumbers, taxCalls, retrievalCalls,
                    retrievalFailed, chunks, lastErr, sleepLog,
                    taxVars, health, storeVars >>

\* Lines 100-102, 163-169: generateContent resolves; its text is the summary.
GenerationSucceeds ==
    /\ pc = "generating"
    /\ \E text \in GenTexts, throws \in BOOLEAN :
        /\ attemptLog' = Append(attemptLog, Attempted("ok", text))
        /\ Finish(Generated(text), ExtractBullets(text), chunks, throws)
    /\ UNCHANGED << env, body, data, taxNumbers, taxCalls, retrievalCalls,
                    retrievalFailed, chunks, modelIdx, attempt, lastErr, sleepLog,
                    taxVars, health, storeVars >>

\* Lines 103-110: a 429 on the first attempt; sleep, then retry the same model.
GenerationRateLimited ==
    /\ pc = "generating"
    /\ \E err \in GenErrors :
        /\ RetrySameModel(err, attempt)
        /\ lastErr' = err
        /\ attemptLog' = Append(attemptLog, Attempted(Outcome(err), << >>))
        /\ sleepLog' = Append(sleepLog, parseRetryDelay(err))
    /\ pc' = "sleeping"
    /\ UNCHANGED << env, body, data, taxNumbers, taxCalls, retrievalCalls,
                    retrievalFailed, chunks, modelIdx, attempt, outVars, taxVars, health, storeVars >>

\* Faulty variant of SleepEnds: the sleep's promise is never resolved.
SleepNeverResolves ==
    /\ pc = "sleeping"
    /\ UNCHANGED vars

\* Line 109 resumes: attempt++ and the next generateContent call.
SleepEnds ==
    /\ pc = "sleeping"
    /\ attempt' = attempt + 1
    /\ pc' = "generating"
    /\ UNCHANGED << env, body, data, taxNumbers, taxCalls, retrievalCalls,
                    retrievalFailed, chunks, modelIdx, lastErr, attemptLog, sleepLog,
                    outVars, taxVars, health, storeVars >>

\* Lines 112-114, 96: any other failure; break, and the next model is tried.
GenerationNextModel ==
    /\ pc = "generating"
    /\ modelIdx < Len(GEMINI_MODELS(env))
    /\ \E err \in GenErrors :
        /\ ~RetrySameModel(err, attempt)
        /\ lastErr' = err
        /\ attemptLog' = Append(attemptLog, Attempted(Outcome(err), << >>))
    /\ modelIdx' = modelIdx + 1
    /\ attempt' = 0
    /\ UNCHANGED << env, body, pc, data, taxNumbers, taxCalls, retrievalCalls,
                    retrievalFailed, chunks, sleepLog, outVars, taxVars, health, storeVars >>

\* Lines 112-118, 170-173: the last model fails; callGemini throws lastErr and
\* the summary becomes the placeholder.
GenerationExhausted ==
    /\ pc = "generating"
    /\ modelIdx = Len(GEMINI_MODELS(env))
    /\ \E err \in GenErrors, throws \in BOOLEAN :
        /\ ~RetrySameModel(err, attempt)
        /\ lastErr' = err
        /\ attemptLog' = Append(attemptLog, Attempted(Outcome(err), << >>))
        /\ Finish(Unavailable(err), << >>, chunks, throws)
    /\ UNCHANGED << env, body, data, taxNumbers, taxCalls, retrievalCalls,
                    retrievalFailed, chunks, modelIdx, attempt, sleepLog, taxVars, health, storeVars >>

\* Line 127: axios.post resolves, after the response was sent.
WebhookResolves ==
    /\ webhook.state = "pending"
    /\ webhook' = [webhook EXCEPT !.state = "delivered"]
    /\ UNCHANGED << env, body, pc, data, taxNumbers, taxCalls, retrievalCalls,
                    retrievalFailed, chunks, genVars, response, responses,
                    webhookSends, assemblyThrew, taxVars, health, storeVars >>

\* Faulty variant of WebhookRejects: the rejection reaches the handler, which
\* answers again with an error.
WebhookRejectsPropagates ==
    /\ webhook.state = "pending"
    /\ webhook' = [webhook EXCEPT !.state = "failed"]
    /\ response' = InternalError
    /\ responses' = responses + 1
    /\ UNCHANGED << env, body, pc, data, taxNumbers, taxCalls, retrievalCalls,
                    retrievalFailed, chunks, genVars, webhookSends, assemblyThrew,
                    taxVars, health, storeVars >>

\* Line 128: axios.post rejects (or times out); the error is only logged.
WebhookRejects ==
    /\ webhook.state = "pending"
    /\ webhook' = [webhook EXCEPT !.state = "failed"]
    /\ UNCHANGED << env, body, pc, data, taxNumbers, taxCalls, retrievalCalls,
                    retrievalFailed, chunks, genVars, response, responses,
                    webhookSends, assemblyThrew, taxVars, health, storeVars >>

Next ==
    \/ ValidationFails
    \/ ValidationPasses
    \/ RetrievalReturns
    \/ RetrievalThrows
    \/ GenerationSucceeds
    \/ GenerationRateLimited
    \/ SleepEnds
    \/ GenerationNextModel
    \/ GenerationExhausted
    \/ WebhookResolves
    \/ WebhookRejects

Spec == Init /\ [][Next]_vars

\* ------------------------------------------- the tax engine called directly

GrossIncomes ==
    {g \in {i * Rupees(SalaryStep) + j :
                i \in 0..MaxSalarySteps, j \in {-Scale, -1, 0, 1, Scale}} : g >= 0}

\* A deductions object from four optional fields (<< >>: the field is absent).
MkDeductions(c, d, h, o) ==
    LET all == [section80C |-> c, section80D |-> d, hra |-> h, other |-> o]
    IN  [n \in {m \in DeductionNames : all[m] # << >>} |-> all[n][1]]

DeductionSets ==
    {MkDeductions(c, d, h, o) :
        c \in {<< >>, << 0 >>, << Rupees(150000) >>, << Rupees(200000) >>},
        d \in {<< >>, << Rupees(25000) >>, << Rupees(30000) >>},
        h \in {<< >>, << Rupees(60000) >>},
        o \in {<< >>, << 1 >>}}

TaxInit ==
    /\ taxIn \in [grossSalary : GrossIncomes, deductions : DeductionSets]
    /\ taxOut = Undefined
    /\ pc = "idle"
    /\ env = [GEMINI_API_KEY |-> Unset, GEMINI_MODEL |-> Unset, N8N_WEBHOOK_URL |-> Unset]
    /\ body = Undefined
    /\ data = Undefined
    /\ taxNumbers = Undefined
    /\ taxCalls = 0
    /\ retrievalCalls = 0
    /\ retrievalFailed = FALSE
    /\ chunks = << >>
    /\ modelIdx = 0
    /\ attempt = 0
    /\ lastErr = << >>
    /\ attemptLog = << >>
    /\ sleepLog = << >>
    /\ response = NoResponse
    /\ responses = 0
    /\ webhook = NotSent
    /\ webhookSends = 0
    /\ assemblyThrew = FALSE
    /\ health = NoResponse
    /\ StoreIdle

reqVars ==
    << env, body, pc, data, taxNumbers, taxCalls, retrievalCalls, retrievalFailed,
       chunks, genVars, outVars >>

CallComputeOldRegime ==
    /\ pc = "idle"
    /\ taxOut' = [fn |-> "computeOldRegime",
                  result |-> computeOldRegime(taxIn.grossSalary, taxIn.deductions)]
    /\ UNCHANGED << taxIn, reqVars, health, storeVars >>

CallComputeNewRegime ==
    /\ pc = "idle"
    /\ taxOut' = [fn |-> "computeNewRegime",
                  result |-> computeNewRegime(taxIn.grossSalary)]
    /\ UNCHANGED << taxIn, reqVars, health, storeVars >>

CallCompareTaxRegimes ==
    /\ pc = "idle"
    /\ taxOut' = [fn |-> "compareTaxRegimes",
                  result |-> compareTaxRegimes(taxIn.grossSalary, taxIn.deductions)]
    /\ UNCHANGED << taxIn, reqVars, health, storeVars >>

TaxNext ==
    \/ CallComputeOldRegime
    \/ CallComputeNewRegime
    \/ CallCompareTaxRegimes

TaxSpec == TaxInit /\ [][TaxNext]_vars

\* The old- and new-regime results in taxOut, whichever function produced them.
OldResults ==
    IF taxOut = Undefined THEN {}
    ELSE IF taxOut.fn = "computeOldRegime" THEN {taxOut.result}
    ELSE IF taxOut.fn = "compareTaxRegimes" THEN {taxOut.result.old}
    ELSE {}

NewResults ==
    IF taxOut = Undefined THEN {}
    ELSE IF taxOut.fn = "computeNewRegime" THEN {taxOut.result}
    ELSE IF taxOut.fn = "compareTaxRegimes" THEN {taxOut.result.new}
    ELSE {}

\* ------------------------------------------------ server.js: GET /api/health

CHROMA_DEFAULT == "http://localhost:8000"

\* The body res.json sends; the timestamp (the clock) is left out.
HealthBody(processEnv) ==
    [status |-> "ok",
     env |-> [gemini |-> Truthy(processEnv.GEMINI_API_KEY)
                           /\ processEnv.GEMINI_API_KEY # KEY_PLACEHOLDER,
              chroma |-> IF Truthy(processEnv.CHROMA_HOST)
                         THEN processEnv.CHROMA_HOST ELSE CHROMA_DEFAULT,
              n8n |-> Truthy(processEnv.N8N_WEBHOOK_URL)]]

\* A request that passes validation and one that does not.
SampleBodies ==
    {[salary |-> Num(Rupees(1200000)), deductions |-> Undefined, query |-> Undefined],
     [salary |-> Undefined, deductions |-> Undefined, query |-> Undefined]}

HealthEnvs ==
    [GEMINI_API_KEY : ApiKeys, GEMINI_MODEL : {Unset}, N8N_WEBHOOK_URL : WebhookUrls,
     CHROMA_HOST : {Unset, "http://chroma:8000"}]

\* The server with one explain request and the health endpoint.
HealthInit ==
    /\ env \in HealthEnvs
    /\ body \in SampleBodies
    /\ pc = "start"
    /\ data = Undefined
    /\ taxNumbers = Undefined
    /\ taxCalls = 0
    /\ retrievalCalls = 0
    /\ retrievalFailed = FALSE
    /\ chunks = << >>
    /\ modelIdx = 0
    /\ attempt = 0
    /\ lastErr = << >>
    /\ attemptLog = << >>
    /\ sleepLog = << >>
    /\ response = NoResponse
    /\ responses = 0
    /\ webhook = NotSent
    /\ webhookSends = 0
    /\ assemblyThrew = FALSE
    /\ taxIn = Undefined
    /\ taxOut = Undefined
    /\ health = NoResponse
    /\ StoreIdle

\* app.get('/api/health'): answers at once from process.env, at any time.
GetHealth ==
    /\ health' = [status |-> 200, body |-> HealthBody(env)]
    /\ UNCHANGED << reqVars, taxVars, storeVars >>

HealthNext ==
    \/ GetHealth
    \/ ValidationFails
    \/ ValidationPasses
    \/ RetrievalReturns
    \/ RetrievalThrows
    \/ GenerationSucceeds
    \/ GenerationRateLimited
    \/ SleepEnds
    \/ GenerationNextModel
    \/ GenerationExhausted
    \/ WebhookResolves
    \/ WebhookRejects

HealthSpec == HealthInit /\ [][HealthNext]_vars

\* ------------------------------------ one explain request, every call ending

FairInit ==
    /\ env \in Envs
    /\ body \in SampleBodies
    /\ pc = "start"
    /\ data = Undefined
    /\ taxNumbers = Undefined
    /\ taxCalls = 0
    /\ retrievalCalls = 0
    /\ retrievalFailed = FALSE
    /\ chunks = << >>
    /\ modelIdx = 0
    /\ attempt = 0
    /\ lastErr = << >>
    /\ attemptLog = << >>
    /\ sleepLog = << >>
    /\ response = NoResponse
    /\ responses = 0
    /\ webhook = NotSent
    /\ webhookSends = 0
    /\ assemblyThrew = FALSE
    /\ taxIn = Undefined
    /\ taxOut = Undefined
    /\ health = NoResponse
    /\ StoreIdle

\* The handler runs on when it is not suspended, and every call it awaits
\* (queryTopK, generateContent, sleep) eventually resolves or rejects.
FairSpec ==
    /\ FairInit
    /\ [][Next]_vars
    /\ WF_vars(ValidationFails \/ ValidationPasses)
    /\ WF_vars(RetrievalReturns \/ RetrievalThrows)
    /\ WF_vars(GenerationSucceeds \/ GenerationRateLimited
                \/ GenerationNextModel \/ GenerationExhausted)
    /\ WF_vars(SleepEnds)

\* ------------------------------------- vectorStore.js: concurrent getCollection

StoreInit ==
    /\ StoreIdle
    /\ pc = "idle"
    /\ env = [GEMINI_API_KEY |-> Unset, GEMINI_MODEL |-> Unset, N8N_WEBHOOK_URL |-> Unset]
    /\ body = Undefined
    /\ data = Undefined
    /\ taxNumbers = Undefined
    /\ taxCalls = 0
    /\ retrievalCalls = 0
    /\ retrievalFailed = FALSE
    /\ chunks = << >>
    /\ modelIdx = 0
    /\ attempt = 0
    /\ lastErr = << >>
    /\ attemptLog = << >>
    /\ sleepLog = << >>
    /\ response = NoResponse
    /\ responses = 0
    /\ webhook = NotSent
    /\ webhookSends = 0
    /\ assemblyThrew = FALSE
    /\ taxIn = Undefined
    /\ taxOut = Undefined
    /\ health = NoResponse

\* Lines 29-32 up to the await: a caller enters getCollection. With a cached
\* handle it returns it; otherwise it takes the client (created on first use)
\* and calls getOrCreateCollection, which suspends it.
CallGetCollection(c) ==
    /\ calls[c].pc = "idle"
    /\ IF _collection # JNull
       THEN /\ calls' = [calls EXCEPT ![c] =
                   [pc |-> "returned", contacted |-> FALSE, result |-> _collection]]
            /\ UNCHANGED << _client, _collection >>
       ELSE /\ _client' = [client |-> "ChromaClient"]
            /\ calls' = [calls EXCEPT ![c] =
                   [pc |-> "awaiting", contacted |-> TRUE, result |-> JNull]]
            /\ UNCHANGED _collection
    /\ UNCHANGED << reqVars, taxVars, health >>

\* Lines 32-36: getOrCreateCollection resolves; the handle is stored and returned.
LookupResolves(c) ==
    /\ calls[c].pc = "awaiting"
    /\ _collection' = Handle(c)
    /\ calls' = [calls EXCEPT ![c] =
           [pc |-> "returned", contacted |-> TRUE, result |-> Handle(c)]]
    /\ UNCHANGED << _client, reqVars, taxVars, health >>

\* Faulty variant of LookupRejects: the pending promise was stored before it
\* settled, so the failure stays cached.
LookupRejectsCached(c) ==
    /\ calls[c].pc = "awaiting"
    /\ _collection' = [rejected |-> c]
    /\ calls' = [calls EXCEPT ![c] =
           [pc |-> "threw", contacted |-> TRUE, result |-> JNull]]
    /\ UNCHANGED << _client, reqVars, taxVars, health >>

\* Line 32: getOrCreateCollection rejects; the await throws before the
\* assignment and the call fails.
LookupRejects(c) ==
    /\ calls[c].pc = "awaiting"
    /\ calls' = [calls EXCEPT ![c] =
           [pc |-> "threw", contacted |-> TRUE, result |-> JNull]]
    /\ UNCHANGED << _client, _collection, reqVars, taxVars, health >>

StoreNext ==
    \/ \E c \in Callers : CallGetCollection(c)
    \/ \E c \in Callers : LookupResolves(c)
    \/ \E c \in Callers : LookupRejects(c)

StoreSpec == StoreInit /\ [][StoreNext]_vars

\* -------------------------------------------------------------- properties

\* The request passed validation (stated on the parsed outcome).
Valid == body # Undefined /\ ExplainSchema(body).success

\* The two regimes' numbers as the response must carry them, computed afresh
\* from the request's salary and deductions.
ExpectedTaxNumbers ==
    [old |-> RegimeView(computeOldRegime(data.salary, data.deductions)),
     new |-> RegimeView(computeNewRegime(data.salary))]

\* aiSummary is a string: generated text, the placeholder or the fixed message.
IsSummaryString(summary) ==
    summary.kind \in {"generated", "AI summary unavailable", SetKeyMessage.kind}

\* The attempts logged for the candidate at position i.
AttemptsAt(i) == SelectSeq(attemptLog, LAMBDA a : a.idx = i)

\* How many logged attempts were made on the model identifier m.
AttemptsOn(m) == Len(SelectSeq(attemptLog, LAMBDA a : a.model = m))

\* Every candidate was tried and none succeeded.
Exhausted ==
    /\ pc = "done"
    /\ attemptLog # << >>
    /\ \A k \in 1..Len(attemptLog) : attemptLog[k].outcome # "ok"

\* C1: a valid request that ends without an exception outside the guarded
\* retrieval and generation steps is answered 200 with both regimes' numbers
\* and a non-null string aiSummary, whatever retrieval and generation did; a
\* valid request is never answered with a validation error, and no retrieval
\* or generation outcome produces an error response.
C1_AlwaysCompleteResponse ==
    (pc = "done" /\ Valid) =>
        /\ response.status \in {200, 500}
        /\ response.status = 500 => assemblyThrew
        /\ response.status = 200 =>
            /\ response.taxNumbers = ExpectedTaxNumbers
            /\ response.aiSummary # NullSummary
            /\ IsSummaryString(response.aiSummary)

\* Retrieval failed and every model was exhausted, and the answer is still 200.
C1_Witness ==
    /\ pc = "done"
    /\ Valid
    /\ retrievalFailed
    /\ Exhausted
    /\ response.status = 200
    /\ response.aiSummary.kind = "AI summary unavailable"

\* The request is invalid in one of the ways the claim lists.
SalaryInvalid ==
    body.salary = Undefined \/ body.salary.t # "number" \/ body.salary.v <= 0

DeductionsInvalid ==
    /\ body.deductions # Undefined
    /\ body.deductions.t = "object"
    /\ \E n \in DOMAIN body.deductions.fields :
        LET f == body.deductions.fields[n]
        IN  \/ f.t # "number"
            \/ f.v < 0
            \/ n = "section80C" /\ f.v > Rupees(150000)
            \/ n = "section80D" /\ f.v > Rupees(25000)

QueryTooLong ==
    body.query # Undefined /\ body.query.t = "string" /\ body.query.len > 500

\* C2: a request with an invalid salary, invalid deductions or an over-long
\* query never causes a tax computation, a retrieval call, a generation
\* attempt or a notification, and its answer is 400 with the invalid fields
\* named in the details.
C2_InvalidRejected ==
    (pc # "idle" /\ (SalaryInvalid \/ DeductionsInvalid \/ QueryTooLong)) =>
        /\ taxCalls = 0 /\ taxNumbers = Undefined
        /\ retrievalCalls = 0
        /\ attemptLog = << >> /\ modelIdx = 0
        /\ webhookSends = 0 /\ webhook = NotSent
        /\ pc \in {"start", "done"}
        /\ pc = "done" =>
            /\ response.status = 400
            /\ SalaryInvalid => "salary" \in response.details
            /\ DeductionsInvalid => "deductions" \in response.details
            /\ QueryTooLong => "query" \in response.details

\* A request whose only fault is a negative deduction was answered 400.
C2_Witness ==
    /\ pc = "done"
    /\ ~SalaryInvalid /\ ~QueryTooLong /\ DeductionsInvalid
    /\ \E n \in DOMAIN body.deductions.fields :
        body.deductions.fields[n].t = "number" /\ body.deductions.fields[n].v < 0
    /\ response.status = 400
    /\ response.details = {"deductions"}

\* C3: once queryTopK has failed the request goes on with no chunks: it is
\* never answered before generation is settled, and, unless an exception
\* outside the guarded steps occurs, its answer is 200 with sources = [] and
\* a non-null aiSummary.
C3_RetrievalFailureTolerated ==
    retrievalFailed =>
        /\ chunks = << >>
        /\ pc \in {"generating", "sleeping", "done"}
        /\ pc = "done" =>
            /\ response.status = 500 => assemblyThrew
            /\ response.status # 500 =>
                /\ response.status = 200
                /\ response.sources = << >>
                /\ response.aiSummary # NullSummary
                /\ IsSummaryString(response.aiSummary)

\* Retrieval failed, generation then succeeded, and the answer is 200.
C3_Witness ==
    /\ retrievalFailed
    /\ pc = "done"
    /\ response.status = 200
    /\ response.sources = << >>
    /\ response.aiSummary.kind = "generated"

\* The first candidate answered every attempt with a rate-limit and the second
\* candidate's first attempt succeeded.
FirstLimitedSecondOk ==
    /\ pc = "done"
    /\ AttemptsAt(1) # << >>
    /\ \A k \in 1..Len(AttemptsAt(1)) : AttemptsAt(1)[k].outcome = "429"
    /\ AttemptsAt(2) # << >>
    /\ AttemptsAt(2)[1].outcome = "ok"

\* C4: if the first candidate is rate-limited on every attempt and the second
\* succeeds at once, the first was attempted exactly twice, the second exactly
\* once, no later candidate at all, and the summary sent is the second
\* candidate's text.
C4_FallbackToSecond ==
    FirstLimitedSecondOk =>
        /\ Len(AttemptsAt(1)) = 2
        /\ Len(AttemptsAt(2)) = 1
        /\ Len(attemptLog) = 3
        /\ \A k \in 1..Len(attemptLog) : attemptLog[k].idx \in {1, 2}
        /\ response.status = 200 =>
            response.aiSummary = Generated(AttemptsAt(2)[1].text)

C4_Witness ==
    /\ FirstLimitedSecondOk
    /\ response.status = 200
    /\ response.aiSummary = Generated(TextBullets)
    /\ sleepLog # << >>

\* C5 as claimed: no model identifier is attempted more than twice in a request.
C5_AtMostTwicePerIdentifier ==
    \A k \in 1..Len(attemptLog) : AttemptsOn(attemptLog[k].model) <= 2

\* C6: when every candidate is exhausted the answer (short of an exception
\* outside the guarded steps) is 200 with both regimes' numbers, an empty
\* bullets list, and the placeholder summary embedding the first 80
\* characters at most of the last generation error.
C6_ExhaustedDegrades ==
    Exhausted =>
        /\ response.status = 500 => assemblyThrew
        /\ response.status # 500 =>
            /\ response.status = 200
            /\ response.taxNumbers = ExpectedTaxNumbers
            /\ response.bullets = << >>
            /\ response.aiSummary.kind = "AI summary unavailable"
            /\ response.aiSummary.reason.of = lastErr
            /\ Outcome(lastErr) = attemptLog[Len(attemptLog)].outcome
            /\ response.aiSummary.reason.len <= 80
            /\ response.aiSummary.reason.len = Min(lastErr.len, 80)

\* Exhausted with a last error longer than 80 characters, cut to 80.
C6_Witness ==
    /\ Exhausted
    /\ response.status = 200
    /\ lastErr.len > 80
    /\ response.aiSummary.reason.len = 80

\* No generation credential: unset, empty or the template's placeholder.
NoCredential ==
    env.GEMINI_API_KEY \in {Unset, "", "your_gemini_api_key_here"}

\* C7: without a credential no generation attempt is ever made, and a valid
\* request (short of an exception outside the guarded steps) is answered 200
\* with the fixed instructional message, no bullets and the tax numbers.
C7_UnconfiguredSkipsGeneration ==
    (pc # "idle" /\ NoCredential) =>
        /\ attemptLog = << >> /\ sleepLog = << >> /\ modelIdx = 0
        /\ pc \notin {"generating", "sleeping"}
        /\ (pc = "done" /\ Valid) =>
            /\ response.status = 500 => assemblyThrew
            /\ response.status # 500 =>
                /\ response.status = 200
                /\ response.aiSummary = SetKeyMessage
                /\ response.bullets = << >>
                /\ response.taxNumbers = ExpectedTaxNumbers

\* The key is the template's placeholder and the request was answered 200.
C7_Witness ==
    /\ env.GEMINI_API_KEY = "your_gemini_api_key_here"
    /\ pc = "done"
    /\ response.status = 200
    /\ response.aiSummary = SetKeyMessage
    /\ retrievalCalls = 1

\* C8: the notification is fire-and-forget. While the notification call is
\* outstanding, and after it has resolved or failed, the one 200 response has
\* already been sent; and a response once sent is never changed or followed by
\* another, whatever happens to the notification.
C8_FireAndForget ==
    /\ [](webhook # NotSent => response.status = 200 /\ responses = 1)
    /\ [][response # NoResponse => response' = response /\ responses' = responses]_vars

\* The notification failed after a 200 response had been sent.
C8_Witness ==
    /\ webhook # NotSent
    /\ webhook.state = "failed"
    /\ response.status = 200
    /\ responses = 1

\* C9: when an exception is raised while the response is built, after the tax
\* numbers were computed, the answer is the generic 500 error, carrying no tax
\* numbers, verdict or savings.
C9_InternalErrorHidesNumbers ==
    assemblyThrew =>
        /\ pc = "done"
        /\ taxCalls = 1 /\ taxNumbers # Undefined
        /\ response.status = 500
        /\ response.error = "Internal server error"
        /\ DOMAIN response \cap
             {"taxNumbers", "verdict", "savings", "recommendation"} = {}

C9_Witness ==
    /\ assemblyThrew
    /\ taxNumbers # Undefined
    /\ taxNumbers.old.totalTax > 0
    /\ response.status = 500

\* C10: rebate dominates. Whenever the old-regime taxable income is at most
\* 500000 rupees, the old-regime base tax, cess and total tax are all 0, and
\* whenever the new-regime taxable income is at most 700000 rupees the same
\* holds of the new regime, the threshold itself included.
C10_RebateDominates ==
    /\ \A r \in OldResults :
        r.taxableIncome <= Rupees(500000)
            => r.baseTax = 0 /\ r.cess = 0 /\ r.totalTax = 0
    /\ \A r \in NewResults :
        r.taxableIncome <= Rupees(700000)
            => r.baseTax = 0 /\ r.cess = 0 /\ r.totalTax = 0

\* The new regime was computed at exactly the threshold, where the slab table
\* alone gives a positive tax, and the result carries no tax.
C10_Witness ==
    \E r \in NewResults :
        /\ r.taxableIncome = Rupees(700000)
        /\ applySlabs(r.taxableIncome, NEW_SLABS) > 0
        /\ r.totalTax = 0

\* ------------------------------------------- reference values for the engine

\* value (in units) is a whole number of rupees nearest to x / den rupees.
IsNearestRupee(value, x, den) ==
    /\ value % Scale = 0
    /\ 2 * Abs((value \div Scale) * den - x) <= den

\* The part of an income t between the ceilings lo and hi (in rupees).
Within(t, lo, hi) == Max(0, Min(t, Rupees(hi)) - Rupees(lo))

\* The progressive tax on a taxable income t before rounding, in units of
\* 1/(100*Scale) rupee, written out bracket by bracket from the two tables.
OldProgressive(t) ==
    5 * Within(t, 250000, 500000) + 20 * Within(t, 500000, 1000000)
        + 30 * Max(0, t - Rupees(1000000))

NewProgressive(t) ==
    5 * Within(t, 300000, 700000) + 10 * Within(t, 700000, 1000000)
        + 15 * Within(t, 1000000, 1200000) + 20 * Within(t, 1200000, 1500000)
        + 30 * Max(0, t - Rupees(1500000))

\* A result charges the slab tax in full: baseTax is the rounded progressive
\* tax, cess 4% of it rounded, totalTax their sum.
ChargedInFull(r, progressive) ==
    /\ IsNearestRupee(r.baseTax, progressive, 100 * Scale)
    /\ IsNearestRupee(r.cess, 4 * r.baseTax, 100 * Scale)
    /\ r.totalTax = r.baseTax + r.cess

\* C11: the rebate is a cliff. Above the threshold (500000 old, 700000 new)
\* the whole slab tax and 4% cess on it are charged, with no relief; at taxable
\* income 500001 the old regime gives baseTax 12500, cess 500, totalTax 13000
\* and at 700001 the new regime gives baseTax 20000, cess 800, totalTax 20800.
C11_RebateCliff ==
    /\ \A r \in OldResults :
        /\ r.taxableIncome > Rupees(500000) =>
               ChargedInFull(r, OldProgressive(r.taxableIncome))
        /\ r.taxableIncome = Rupees(500001) =>
               /\ r.baseTax = Rupees(12500)
               /\ r.cess = Rupees(500)
               /\ r.totalTax = Rupees(13000)
    /\ \A r \in NewResults :
        /\ r.taxableIncome > Rupees(700000) =>
               ChargedInFull(r, NewProgressive(r.taxableIncome))
        /\ r.taxableIncome = Rupees(700001) =>
               /\ r.baseTax = Rupees(20000)
               /\ r.cess = Rupees(800)
               /\ r.totalTax = Rupees(20800)

\* The old regime was computed one rupee above its threshold and charged 13000.
C11_Witness ==
    \E r \in OldResults :
        /\ r.taxableIncome = Rupees(500001)
        /\ r.totalTax = Rupees(13000)

\* The enumerated gross incomes from g up to one step above it. Consecutive
\* ranges overlap, so an order between each income and the incomes of its
\* range is, by transitivity, an order between any two enumerated incomes.
UpToNextStep(g) ==
    LET i == (g + Scale) \div Rupees(SalaryStep)
    IN  {g2 \in {k * Rupees(SalaryStep) + j :
                    k \in i..Min(i + 1, MaxSalarySteps),
                    j \in {-Scale, -1, 0, 1, Scale}} :
            g <= g2 /\ g2 <= g + Rupees(SalaryStep)}

\* C12: monotonicity. With the deductions fixed, no higher gross income gives
\* a smaller total tax, in either regime, the rebate threshold and the slab
\* boundaries included.
C12_Monotone ==
    /\ \A r \in OldResults : \A g2 \in UpToNextStep(r.grossSalary) :
        r.totalTax <= computeOldRegime(g2, taxIn.deductions).totalTax
    /\ \A r \in NewResults : \A g2 \in UpToNextStep(r.grossSalary) :
        r.totalTax <= computeNewRegime(g2).totalTax

\* The old regime was computed exactly at the rebate threshold, with no tax,
\* and one unit more of gross income is taxed.
C12_Witness ==
    \E r \in OldResults :
        /\ r.taxableIncome = Rupees(500000)
        /\ r.totalTax = 0
        /\ r.grossSalary + 1 \in GrossIncomes
        /\ computeOldRegime(r.grossSalary + 1, taxIn.deductions).totalTax > 0

\* C13: comparator consistency. The result of compareTaxRegimes carries the
\* two calculators' results, savings is the old total tax less the new, and
\* betterRegime is new, old or equal exactly as savings is positive, negative
\* or zero.
C13_ComparatorConsistent ==
    (taxOut # Undefined /\ taxOut.fn = "compareTaxRegimes") =>
        LET c == taxOut.result
            o == computeOldRegime(taxIn.grossSalary, taxIn.deductions)
            n == computeNewRegime(taxIn.grossSalary)
        IN  /\ c.old = o
            /\ c.new = n
            /\ c.savings = o.totalTax - n.totalTax
            /\ c.betterRegime = "new" <=> c.savings > 0
            /\ c.betterRegime = "old" <=> c.savings < 0
            /\ c.betterRegime = "equal" <=> c.savings = 0
            /\ c.betterRegime \in {"new", "old", "equal"}

\* Both regimes charge nothing on a positive income and compare as equal.
C13_Witness ==
    /\ taxOut # Undefined
    /\ taxOut.fn = "compareTaxRegimes"
    /\ taxIn.grossSalary > 0
    /\ taxOut.result.old.totalTax = 0
    /\ taxOut.result.new.totalTax = 0
    /\ taxOut.result.savings = 0
    /\ taxOut.result.betterRegime = "equal"

\* The deduction given to computeOldRegime under a name, 0 when absent.
Given(name) ==
    IF name \in DOMAIN taxIn.deductions THEN taxIn.deductions[name] ELSE 0

\* C14: deductions are capped by clamping. The old regime's totalDeductions is
\* 50000 + min(section80C, 150000) + min(section80D, 25000) + hra + other with
\* absent fields counted as 0, also for amounts above the maxima, and a result
\* is returned for them.
C14_ClampedNotRejected ==
    /\ \A r \in OldResults :
        r.totalDeductions =
            Rupees(50000)
            + (IF Given("section80C") > Rupees(150000)
               THEN Rupees(150000) ELSE Given("section80C"))
            + (IF Given("section80D") > Rupees(25000)
               THEN Rupees(25000) ELSE Given("section80D"))
            + Given("hra") + Given("other")
    /\ (taxOut # Undefined /\ taxOut.fn \in {"computeOldRegime", "compareTaxRegimes"})
           => OldResults # {}

\* section80C = 200000 alone was given and counted as 150000.
C14_Witness ==
    /\ taxOut # Undefined
    /\ taxOut.fn = "computeOldRegime"
    /\ taxIn.deductions = [section80C |-> Rupees(200000)]
    /\ taxOut.result.totalDeductions = Rupees(50000) + Rupees(150000)

\* rate is totalTax / grossSalary * 100 rounded to two decimals, in hundredths
\* of a percent: the whole percents by division, the two decimals nearest.
IsRoundedRate(rate, totalTax, grossSalary) ==
    LET whole == (totalTax * 100) \div grossSalary
        rest == (totalTax * 100) % grossSalary
        cents == rate - whole * 100
    IN  /\ cents \in 0..100
        /\ 2 * Abs(rest * 100 - cents * grossSalary) <= grossSalary

RegimeResultOk(r) ==
    /\ r.taxableIncome = Max(0, r.grossSalary - r.totalDeductions)
    /\ r.totalTax = r.baseTax + r.cess
    /\ IF r.grossSalary = 0
       THEN r.effectiveRate = 0 /\ r.taxableIncome = 0 /\ r.totalTax = 0
       ELSE IsRoundedRate(r.effectiveRate, r.totalTax, r.grossSalary)

\* C15: every result of either calculator has taxableIncome = max(0, gross -
\* totalDeductions), totalTax = baseTax + cess, and effectiveRate equal to
\* totalTax / gross * 100 rounded to two decimals, or to 0 when gross is 0;
\* a gross income of 0 gives taxableIncome, totalTax and effectiveRate 0.
C15_ResultInvariants ==
    \A r \in OldResults \cup NewResults : RegimeResultOk(r)

\* Both regimes were computed for a gross income of 0.
C15_Witness ==
    /\ taxIn.grossSalary = 0
    /\ \E r \in OldResults : r.effectiveRate = 0 /\ r.totalTax = 0
    /\ \E r \in NewResults : r.effectiveRate = 0 /\ r.totalTax = 0

\* Every monetary field of a regime's result is a whole, non-negative number
\* of rupees.
WholeRupees(r) ==
    \A f \in {"totalDeductions", "taxableIncome", "baseTax", "cess", "totalTax"} :
        r[f] >= 0 /\ r[f] % Scale = 0

\* C16 as claimed: for every request that passes validation, all monetary
\* fields of both regimes' results are non-negative integers.
C16_MonetaryFieldsIntegers ==
    taxNumbers # Undefined => WholeRupees(taxNumbers.old) /\ WholeRupees(taxNumbers.new)

\* The README's example: salary 1200000, section80C 150000, section80D 25000,
\* hra 60000.
ReadmeExample ==
    [grossSalary |-> Rupees(1200000),
     deductions |-> [section80C |-> Rupees(150000), section80D |-> Rupees(25000),
                     hra |-> Rupees(60000)]]

\* C17: the base tax before the rebate is the progressive reference, the sum
\* over the brackets reached of rate times the income within the bracket,
\* rounded to the nearest integer, for the old and the new table; above the
\* rebate threshold it is the baseTax of the result. The README's example
\* gives old taxableIncome 915000 and totalTax 99320, new taxableIncome
\* 1125000 and totalTax 71500, verdict new and savings 27820.
C17_ProgressiveReference ==
    /\ \A r \in OldResults :
        /\ IsNearestRupee(applySlabs(r.taxableIncome, OLD_SLABS),
                          OldProgressive(r.taxableIncome), 100 * Scale)
        /\ r.taxableIncome > Rupees(500000) =>
               r.baseTax = applySlabs(r.taxableIncome, OLD_SLABS)
    /\ \A r \in NewResults :
        /\ IsNearestRupee(applySlabs(r.taxableIncome, NEW_SLABS),
                          NewProgressive(r.taxableIncome), 100 * Scale)
        /\ r.taxableIncome > Rupees(700000) =>
               r.baseTax = applySlabs(r.taxableIncome, NEW_SLABS)
    /\ (taxIn = ReadmeExample /\ taxOut # Undefined
            /\ taxOut.fn = "compareTaxRegimes") =>
        /\ taxOut.result.old.taxableIncome = Rupees(915000)
        /\ taxOut.result.old.totalTax = Rupees(99320)
        /\ taxOut.result.new.taxableIncome = Rupees(1125000)
        /\ taxOut.result.new.totalTax = Rupees(71500)
        /\ taxOut.result.betterRegime = "new"
        /\ taxOut.result.savings = Rupees(27820)

\* The README's example was compared and the new regime saves 27820.
C17_Witness ==
    /\ taxIn = ReadmeExample
    /\ taxOut # Undefined
    /\ taxOut.fn = "compareTaxRegimes"
    /\ taxOut.result.savings = Rupees(27820)
    /\ taxOut.result.old.baseTax = Rupees(95500)

\* The numeric part of a response or of a notification payload.
NumericPart(x) ==
    [verdict |-> x.verdict, recommendation |-> x.recommendation,
     taxNumbers |-> x.taxNumbers, savings |-> x.savings]

\* The numeric part as a function of the request body alone: the schema's
\* defaults, then the comparison of the two regimes.
NumericPartOf(reqBody) ==
    LET salary == reqBody.salary.v
        given == IF reqBody.deductions = Undefined
                 THEN EmptyObject ELSE reqBody.deductions.fields
        deductions == [n \in DOMAIN given |-> given[n].v]
        o == computeOldRegime(salary, deductions)
        n == computeNewRegime(salary)
        diff == o.totalTax - n.totalTax
    IN  [verdict |-> IF diff > 0 THEN "new" ELSE IF diff < 0 THEN "old" ELSE "equal",
         recommendation |->
             IF diff > 0 THEN [text |-> "New Regime saves", amount |-> diff]
             ELSE IF diff < 0 THEN [text |-> "Old Regime saves", amount |-> -diff]
             ELSE [text |-> "Both regimes result in the same tax liability.",
                   amount |-> 0],
         taxNumbers |-> [old |-> RegimeView(o), new |-> RegimeView(n)],
         savings |-> IF diff < 0 THEN -diff ELSE diff]

\* C18: the verdict, recommendation, taxNumbers and savings of a 200 response,
\* and the same fields of the notification payload, are a function of the
\* request's salary and deductions alone: two requests with the same salary
\* and deductions carry the same values whatever retrieval and generation did.
C18_NumbersDependOnInputOnly ==
    /\ response.status = 200 => NumericPart(response) = NumericPartOf(body)
    /\ webhook # NotSent =>
        /\ NumericPart(webhook.payload) = NumericPartOf(body)
        /\ webhook.payload.salary = body.salary.v

\* Retrieval failed, every model failed, and the response and the notification
\* carry the numbers of the request.
C18_Witness ==
    /\ response.status = 200
    /\ retrievalFailed
    /\ Exhausted
    /\ webhook # NotSent
    /\ response.verdict = "old"
    /\ NumericPart(webhook.payload) = NumericPart(response)

\* err carries a rate-limit signal: status 429, or '429' in its message.
RateLimitSignal(err) == err.status = 429 \/ err.has429

\* An attempt has just failed: the log grew by a failure.
AttemptFailed ==
    /\ Len(attemptLog') = Len(attemptLog) + 1
    /\ attemptLog'[Len(attemptLog')].outcome # "ok"

\* The whole seconds a hint of t tenths of a second is rounded up to.
CeilSeconds(t) == CHOOSE n \in 0..(t + 1) : n * 10 >= t /\ (n - 1) * 10 < t

\* The hint of err has the form "retry in <number>s".
HintInSForm(err) == err.retry # << >> /\ err.retry[1].unit = << "s" >>

\* A first attempt that failed with a rate-limit signal is followed in the log
\* by a second attempt at the same position, and a second attempt by none.
RetriedExactlyOnce ==
    \A k \in 1..Len(attemptLog) :
        /\ (attemptLog[k].outcome = "429" /\ attemptLog[k].attempt = 0
                /\ k < Len(attemptLog)) =>
            /\ attemptLog[k + 1].idx = attemptLog[k].idx
            /\ attemptLog[k + 1].model = attemptLog[k].model
            /\ attemptLog[k + 1].attempt = 1
        /\ (attemptLog[k].attempt = 1 /\ k < Len(attemptLog)) =>
            attemptLog[k + 1].idx # attemptLog[k].idx
        /\ attemptLog[k].attempt \in {0, 1}

AbandonedInOrder ==
    \A k \in 1..Len(attemptLog) :
        (attemptLog[k].outcome # "ok" /\ k < Len(attemptLog)
            /\ (attemptLog[k].outcome = "error" \/ attemptLog[k].attempt = 1)) =>
            /\ attemptLog[k + 1].idx = attemptLog[k].idx + 1
            /\ attemptLog[k + 1].attempt = 0
            /\ attemptLog[k + 1].model = GEMINI_MODELS(env)[attemptLog[k].idx + 1]

\* The suspensions so far are as many as the rate-limited first attempts.
OnlyFirstRateLimitsSleep ==
    Len(sleepLog) =
        Len(SelectSeq(attemptLog, LAMBDA a : a.outcome = "429" /\ a.attempt = 0))

\* C20: an attempt that fails without a rate-limit signal, at either attempt,
\* or with one at the second attempt on a model, ends that model: no retry of
\* it and no suspension follow, and the next attempt, if any, is the first
\* attempt on the next candidate in list order; after the last candidate
\* callGemini gives up.
C20_AbandonWithoutBackoff ==
    /\ [][(AttemptFailed /\ (~RateLimitSignal(lastErr') \/ attempt = 1)) =>
            /\ sleepLog' = sleepLog
            /\ pc' # "sleeping"
            /\ IF modelIdx < Len(GEMINI_MODELS(env))
               THEN pc' = "generating" /\ modelIdx' = modelIdx + 1 /\ attempt' = 0
               ELSE pc' = "done"]_vars
    /\ []AbandonedInOrder
    /\ []OnlyFirstRateLimitsSleep

\* The first model failed at once with a 503 and the second with rate-limits at
\* both attempts; the third was attempted and one suspension only took place.
C20_Witness ==
    /\ Len(attemptLog) >= 4
    /\ attemptLog[1].outcome = "error" /\ attemptLog[1].idx = 1
    /\ attemptLog[2].outcome = "429" /\ attemptLog[2].idx = 2
    /\ attemptLog[3].outcome = "429" /\ attemptLog[3].idx = 2
    /\ attemptLog[4].idx = 3 /\ attemptLog[4].attempt = 0
    /\ Len(sleepLog) = 1

\* C21: a successful attempt ends generation. A success is always the last
\* entry of the attempt log, so no attempt on any model follows it, the
\* handler has gone on to answer, and the summary of the 200 response is the
\* text of that first and only success.
C21_FirstSuccessEnds ==
    \A k \in 1..Len(attemptLog) :
        attemptLog[k].outcome = "ok" =>
            /\ k = Len(attemptLog)
            /\ pc = "done"
            /\ response.status = 500 => assemblyThrew
            /\ response.status # 500 =>
                /\ response.status = 200
                /\ response.aiSummary = Generated(attemptLog[k].text)

\* The first model succeeded at its retry; its text is the summary and the
\* other models were never attempted.
C21_Witness ==
    /\ Len(attemptLog) = 2
    /\ attemptLog[1].outcome = "429"
    /\ attemptLog[2].outcome = "ok"
    /\ attemptLog[2].idx = 1
    /\ response.status = 200
    /\ response.aiSummary = Generated(TextPlain)

\* C22: the steps of a request are ordered. Generation is attempted only once
\* the retrieval call has completed or failed; attempts finish one at a time,
\* the only one in flight being the next of the current model, every earlier
\* position being finished; and the notification is fired in the step that
\* ends the handler, after which no attempt is made.
C22_StepsOrdered ==
    /\ []((attemptLog # << >> \/ pc \in {"generating", "sleeping"}) =>
            retrievalCalls = 1 /\ pc # "retrieving")
    /\ [][(pc' = "generating" /\ pc \notin {"generating", "sleeping"}) =>
            pc = "retrieving" /\ attemptLog = << >>]_vars
    /\ [](pc = "generating" =>
            /\ modelIdx \in 1..Len(GEMINI_MODELS(env))
            /\ Len(AttemptsAt(modelIdx)) = attempt
            /\ \A k \in 1..Len(attemptLog) : attemptLog[k].idx <= modelIdx)
    /\ [][attemptLog' # attemptLog =>
            /\ pc = "generating"
            /\ Len(attemptLog') = Len(attemptLog) + 1
            /\ webhook = NotSent /\ webhookSends = 0]_vars
    /\ [](webhook # NotSent => pc = "done")
    /\ [][webhook # NotSent => attemptLog' = attemptLog /\ pc' = pc]_vars

\* Retrieval returned chunks, six attempts were made in turn, and only then
\* was the notification fired.
C22_Witness ==
    /\ Len(chunks) > 0
    /\ Len(attemptLog) = 6
    /\ webhook # NotSent
    /\ webhookSends = 1
    /\ pc = "done"

\* C23: in a 200 response savings is the absolute value of the old total tax
\* less the new, never negative, and the verdict carries the sign: new exactly
\* when the old tax is the greater, old exactly when it is the smaller, equal
\* exactly when savings is 0.
C23_SavingsAbsoluteVerdictSigned ==
    response.status = 200 =>
        LET o == response.taxNumbers.old.totalTax
            n == response.taxNumbers.new.totalTax
        IN  /\ response.savings >= 0
            /\ response.savings = (IF o >= n THEN o - n ELSE n - o)
            /\ response.verdict = "new" <=> o > n
            /\ response.verdict = "old" <=> o < n
            /\ response.verdict = "equal" <=> response.savings = 0

\* The old regime is the cheaper one: the difference is negative, the savings
\* sent are positive.
C23_Witness ==
    /\ response.status = 200
    /\ taxNumbers.savings < 0
    /\ response.savings = -taxNumbers.savings
    /\ response.verdict = "old"

\* The bullets a text should give: of each line whose trimmed form begins with
\* a marker, the trimmed form without its leading markers, dots and blanks,
\* empty results left out, in order.
RECURSIVE MarkedLines(_)
MarkedLines(lines) ==
    IF lines = << >> THEN << >>
    ELSE LET t == Trim(Head(lines))
             b == Trim(DropWhile(t, {"-", "o", "*", "."} \cup Digits))
         IN  IF t # << >> /\ Head(t) \in {"-", "o", "*"} \cup Digits /\ b # << >>
             THEN << b >> \o MarkedLines(Tail(lines))
             ELSE MarkedLines(Tail(lines))

\* C24 as claimed: the bullets of a response with generated text are the
\* marked lines of the text, indented ones included, in order, each without
\* its marker, so that no bullet starts with a marker, empty results dropped.
C24_BulletsWithoutMarkers ==
    (response.status = 200 /\ response.aiSummary.kind = "generated") =>
        /\ response.bullets = MarkedLines(response.aiSummary.text)
        /\ \A i \in 1..Len(response.bullets) :
            Head(response.bullets[i]) \notin {"-", "o", "*"}

\* C25: sources has one entry per retrieved chunk, in retrieval order, and
\* each excerpt is the first 150 characters of the chunk's text, followed by
\* '...' exactly when the text is longer than 150 characters.
C25_SourcesExcerpts ==
    response.status = 200 =>
        /\ Len(response.sources) = Len(chunks)
        /\ \A i \in 1..Len(chunks) :
            LET e == response.sources[i].excerpt
                text == chunks[i].text
            IN  /\ e.of = text.id
                /\ e.len = (IF text.len > 150 THEN 150 ELSE text.len)
                /\ e.ellipsis <=> text.len > 150

\* Three chunks came back, of 149, 150 and 151 characters; only the last
\* excerpt is cut and marked.
C25_Witness ==
    /\ response.status = 200
    /\ Len(response.sources) = 3
    /\ chunks[2].text.len = 150
    /\ ~response.sources[2].excerpt.ellipsis
    /\ chunks[3].text.len = 151
    /\ response.sources[3].excerpt.len = 150
    /\ response.sources[3].excerpt.ellipsis

\* C26 as claimed: health answers status ok, its generation flag is true
\* exactly when the explain request attempts generation, and its notification
\* flag is true exactly when the explain request sends a notification.
C26_HealthConsistentWithExplain ==
    health # NoResponse =>
        /\ health.status = 200
        /\ health.body.status = "ok"
        /\ (pc = "done" /\ response.status = 200) =>
            /\ health.body.env.gemini <=> attemptLog # << >>
            /\ health.body.env.n8n <=> webhookSends = 1

\* Every itemized deduction given to the engine is zero or absent.
NoItemizedDeductions ==
    \A n \in {"section80C", "section80D", "hra", "other"} : Given(n) = 0

\* C27: with no itemized deductions the new regime is never worse. Its total
\* tax is at most the old regime's for the same gross income, and the
\* comparison never recommends the old regime.
C27_NewNeverWorseWithoutDeductions ==
    (taxOut # Undefined /\ NoItemizedDeductions) =>
        /\ \A r \in NewResults :
            r.totalTax <= computeOldRegime(taxIn.grossSalary, taxIn.deductions).totalTax
        /\ \A r \in OldResults :
            computeNewRegime(taxIn.grossSalary).totalTax <= r.totalTax
        /\ taxOut.fn = "compareTaxRegimes" => taxOut.result.betterRegime # "old"

\* Compared with section80C = 0 only, just above the old regime's rebate
\* threshold: the old regime charges 13000, the new nothing.
C27_Witness ==
    /\ taxOut # Undefined
    /\ taxOut.fn = "compareTaxRegimes"
    /\ taxIn.deductions = [section80C |-> 0]
    /\ taxOut.result.old.totalTax = Rupees(13000)
    /\ taxOut.result.new.totalTax = 0
    /\ taxOut.result.betterRegime = "new"

\* C28: under any interleaving of getCollection calls the cache is only ever
\* set from a successful lookup. A failed call leaves the cache as it was; a
\* call started while the cache is empty contacts the index; a call started
\* once a lookup has succeeded returns the cached handle without contacting
\* the index.
C28_CacheOnlyFromSuccess ==
    /\ [](_collection # JNull =>
            \E c \in Callers :
                /\ calls[c].pc = "returned" /\ calls[c].contacted
                /\ calls[c].result = _collection
                /\ _collection = Handle(c))
    /\ [][\A c \in Callers :
            (calls[c].pc = "awaiting" /\ calls'[c].pc = "threw") =>
                _collection' = _collection]_vars
    /\ [][\A c \in Callers :
            (calls[c].pc = "idle" /\ calls'[c].pc # "idle") =>
                IF _collection = JNull
                THEN calls'[c].pc = "awaiting" /\ calls'[c].contacted
                ELSE /\ calls'[c].pc = "returned"
                     /\ ~calls'[c].contacted
                     /\ calls'[c].result = _collection
                     /\ _collection' = _collection]_vars
    /\ [](\A c \in Callers :
            calls[c].pc = "returned" =>
                \E d \in Callers : calls[c].result = Handle(d) /\ calls[d].contacted)

\* One call failed, a second looked the collection up, and a third was served
\* the second's handle from the cache.
C28_Witness ==
    /\ calls[1].pc = "threw"
    /\ calls[2].pc = "returned" /\ calls[2].contacted
    /\ calls[3].pc = "returned" /\ ~calls[3].contacted
    /\ calls[3].result = Handle(2)
    /\ _collection = Handle(2)

\* The notification URL is set and is not the built-in default.
UrlConfigured ==
    env.N8N_WEBHOOK_URL \notin {Unset, "", "http://localhost:5678/webhook/tax-report"}

\* C29: a notification is sent at most once per request, only together with a
\* 200 response and only to a configured URL: never with a 400 or a 500, never
\* with the URL unset or equal to the built-in default. To a configured URL it
\* is sent with every 200 response, degraded ones included.
C29_NotificationOnlyOnSuccess ==
    /\ webhookSends <= 1
    /\ webhookSends = 1 <=> webhook # NotSent
    /\ webhookSends = 1 => response.status = 200 /\ UrlConfigured
    /\ (pc = "done" /\ response.status \in {400, 500}) => webhookSends = 0
    /\ (pc = "done" /\ response.status = 200 /\ UrlConfigured) => webhookSends = 1

\* Retrieval failed and no key is configured, and the notification was sent.
C29_Witness ==
    /\ retrievalFailed
    /\ NoCredential
    /\ response.status = 200
    /\ response.aiSummary = SetKeyMessage
    /\ webhookSends = 1

\* The suspensions a position of the list accounts for.
SleepsAt(i) ==
    Len(SelectSeq(attemptLog,
                  LAMBDA a : a.idx = i /\ a.attempt = 0 /\ a.outcome = "429"))

\* C30: provided every awaited call completes or fails, a request eventually
\* has exactly one response, 400, 200 or 500, and never a second; on the way
\* at most two attempts and one suspension are made per candidate, so at most
\* twice the number of candidates attempts in all.
C30_OneResponseEventually ==
    /\ <>[](pc = "done" /\ responses = 1 /\ response.status \in {400, 200, 500})
    /\ [](responses <= 1 /\ (responses = 0 <=> response = NoResponse))
    /\ [](/\ Len(attemptLog) <= 2 * Len(GEMINI_MODELS(env))
          /\ Len(sleepLog) <= Len(GEMINI_MODELS(env))
          /\ OnlyFirstRateLimitsSleep
          /\ \A i \in 1..Len(GEMINI_MODELS(env)) :
                Len(AttemptsAt(i)) <= 2 /\ SleepsAt(i) <= 1)

\* Every candidate was rate-limited twice: six attempts, three suspensions,
\* one response.
C30_Witness ==
    /\ pc = "done"
    /\ Len(attemptLog) = 6
    /\ Len(sleepLog) = 3
    /\ responses = 1
    /\ response.status = 200

====
